---- MODULE Spec2Model ----
(***************************************************************************)
(* netcontrol: the classifier programmer (src/src/netfilter.rs), the       *)
(* connection timer (src/src/timer.rs) and the process wiring              *)
(* (src/src/main.rs), together with the environment they act on: the       *)
(* kernel classifier (table netcontrol, its chains, rules and quota        *)
(* counters), the nflog queue, the packets that cross the hooks and the    *)
(* wall clock.                                                             *)
(*                                                                         *)
(* One step of the main thread is one statement group of the source up to  *)
(* and including a process_netlink call.  process_netlink sends a batch    *)
(* and, with ack_wait = false, never reads the kernel's answer: the kernel *)
(* commits the batch as one transaction or refuses it as a whole, and the  *)
(* caller cannot tell which.                                               *)
(***************************************************************************)
EXTENDS Integers, Sequences, FiniteSets, TLC

VARIABLES
    config,         \* the parsed policy: Config { data, time }
    pc,             \* main thread: where run()/init() stands
    idx,            \* main thread: position of the entry loop of init
    sigpc,          \* signal thread: "wait", "panicked" or "exited"
    handle,         \* HANDLE_INSTANCE is set
    data_entries,   \* NfHandle.data_entries: name -> NfDataLimit
    time_entries,   \* NfHandle.time_entries: name -> NfTimeLimit (with its ConnTimer)
    groups,         \* NfHandle.log.groups: the nflog groups bound, with a callback
    table,          \* kernel: table netcontrol is present
    chains,         \* kernel: the chains of the table
    rules,          \* kernel: chain name -> the rules of the chain, in evaluation order
    quotas,         \* kernel: the names of the quota objects of the table
    consumed,       \* kernel: quota name -> bytes counted by the quota expressions
    logq,           \* nflog messages emitted by log rules and not yet read by run_loop
    clock,          \* seconds of wall clock elapsed
    obs,            \* history, per time entry: the start_/fin_ events the callback received
    acct,           \* history, per data entry: bytes that arrived, notifications emitted and received
    file,           \* the lines of the policy file
    err,            \* the error new_from_file returned to run(), if any
    api             \* history: the last block/unblock of an entry, and the rules before the block

kernel == <<table, chains, rules, quotas, consumed, logq>>
prog   == <<config, pc, idx, sigpc, handle, data_entries, time_entries, groups>>
hist   == <<clock, obs, acct>>
boot   == <<file, err, api>>
vars   == <<config, pc, idx, sigpc, handle, data_entries, time_entries, groups,
            table, chains, rules, quotas, consumed, logq, clock, obs, acct, file, err, api>>

(***************************************************************************)
(* Bounds of the model.                                                    *)
(***************************************************************************)
MaxClock == 2       \* seconds of wall clock explored
MaxBytes == 3       \* bytes a quota counter is driven to
MaxLogQ  == 1       \* nflog messages in flight
MaxConns == 2       \* observed connections open at once, per time entry
MaxLines == 3       \* lines of a policy file
MaxRules == 6       \* rules of one chain
MaxTok   == 4       \* characters of a quota token

(***************************************************************************)
(* Constants of the program.                                               *)
(***************************************************************************)
TABLE_NAME            == "netcontrol"
DATA_IN_CHAIN_NAME    == "data_qt-in"
DATA_OUT_CHAIN_NAME   == "data_qt-out"
TIME_IN_CHAIN_NAME    == "time_qt-in"
TIME_OUT_CHAIN_NAME   == "time_qt-out"
DATA_LOG_PREFIX       == "dq_"
TIME_LOG_PREFIX       == "tq_"
TIME_START_LOG_PREFIX == "start_"
TIME_FIN_LOG_PREFIX   == "fin_"
DATA_QUOTA_NUM        == 0
TIME_QUOTA_NUM        == 1

ChainNames == {DATA_IN_CHAIN_NAME, DATA_OUT_CHAIN_NAME,
               TIME_IN_CHAIN_NAME, TIME_OUT_CHAIN_NAME}

(***************************************************************************)
(* Addresses.  An address is a 2-bit number (IPv4 cut to two bits), a CIDR *)
(* is Ipv4Network { ip, prefix }: the address as written and the prefix    *)
(* length.  Mask and BitAnd are Ipv4Network::mask and the bitwise          *)
(* expression of the rules.                                                *)
(***************************************************************************)
Addr == 0 .. 3

Cidr(ip, prefix) == [ip |-> ip, prefix |-> prefix]

Mask(prefix) == CASE prefix = 0 -> 0
                  [] prefix = 1 -> 2
                  [] OTHER      -> 3

BitAnd(a, m) == (IF a >= 2 /\ m >= 2 THEN 2 ELSE 0)
              + (IF a % 2 = 1 /\ m % 2 = 1 THEN 1 ELSE 0)

\* payload ipv4 saddr|daddr ; bitwise mask ip.mask(), xor 0 ; cmp == ip.ip()
MatchCidr(a, c) == BitAnd(a, Mask(c.prefix)) = c.ip

\* the address lies in the block the CIDR denotes
InCidr(a, c) == BitAnd(a, Mask(c.prefix)) = BitAnd(c.ip, Mask(c.prefix))

(***************************************************************************)
(* config.rs: the policy file.  A line is the sequence of its characters.  *)
(* Hosts are written as in the file, a dotted quad with an optional prefix *)
(* length or a domain name; of an address the model keeps the two low bits *)
(* and of a prefix length what it has beyond /30 (Ipv4Network cut to two   *)
(* bits).  Data is counted in units of 1000 bytes, the unit of a packet's  *)
(* length.                                                                 *)
(***************************************************************************)
Acc(addrs, quota) == [addr |-> addrs, quota |-> quota]

Range(s) == { s[i] : i \in 1 .. Len(s) }

Digits     == <<"0", "1", "2", "3", "4", "5", "6", "7", "8", "9">>
Lower      == {"a", "b", "c", "d", "e", "f", "g", "h", "i", "j", "k", "l", "m",
               "n", "o", "p", "q", "r", "s", "t", "u", "v", "w", "x", "y", "z"}
Whitespace == {" ", "\t"}

IsDigit(c)    == c \in Range(Digits)
DigitValue(c) == (CHOOSE i \in 1 .. Len(Digits) : Digits[i] = c) - 1

RECURSIVE ParseNat(_)
ParseNat(w) == IF w = <<>> THEN 0
               ELSE 10 * ParseNat(SubSeq(w, 1, Len(w) - 1)) + DigitValue(w[Len(w)])

\* the length of the longest prefix of digits
RECURSIVE LeadDigits(_)
LeadDigits(w) == IF w = <<>> \/ ~IsDigit(Head(w)) THEN 0 ELSE 1 + LeadDigits(Tail(w))

UnitOf(w) == SubSeq(w, LeadDigits(w) + 1, Len(w))

\* str::split_whitespace
RECURSIVE Split(_, _, _)
Split(s, word, acc) ==
    LET closed == IF word = <<>> THEN acc ELSE Append(acc, word)
    IN  IF s = <<>> THEN closed
        ELSE IF Head(s) \in Whitespace THEN Split(Tail(s), <<>>, closed)
        ELSE Split(Tail(s), Append(word, Head(s)), acc)

SplitWhitespace(s) == Split(s, <<>>, <<>>)

\* what lies between the occurrences of a character that no alternative of a
\* pattern's groups can match: the parts the groups of the pattern have to match
RECURSIVE Fields(_, _, _, _)
Fields(s, sep, word, acc) ==
    IF s = <<>> THEN Append(acc, word)
    ELSE IF Head(s) = sep THEN Fields(Tail(s), sep, <<>>, Append(acc, word))
    ELSE Fields(Tail(s), sep, Append(word, Head(s)), acc)

FieldsOf(s, sep) == Fields(s, sep, <<>>, <<>>)

\* the character classes [a-z0-9] and [a-z0-9-], and [lo-hi] of digits
AlNum     == Lower \cup Range(Digits)
LabelChar == AlNum \cup {"-"}

DigitIn(c, lo, hi) == IsDigit(c) /\ DigitValue(c) \in lo .. hi

AllIn(w, class) == \A i \in 1 .. Len(w) : w[i] \in class

StartsWith(w, p) == Len(w) >= Len(p) /\ SubSeq(w, 1, Len(p)) = p

Drop(w, k) == SubSeq(w, k + 1, Len(w))

\* 25[0-5]|2[0-4][0-9]|[01]?[0-9][0-9]?
RegOctet(w) ==
    \/ Len(w) = 3 /\ w[1] = "2" /\ w[2] = "5" /\ DigitIn(w[3], 0, 5)
    \/ Len(w) = 3 /\ w[1] = "2" /\ DigitIn(w[2], 0, 4) /\ IsDigit(w[3])
    \/ Len(w) = 3 /\ DigitIn(w[1], 0, 1) /\ IsDigit(w[2]) /\ IsDigit(w[3])
    \/ Len(w) \in 1 .. 2 /\ AllIn(w, Range(Digits))

\* [0-3][0-2]?|[1-2][0-9]|[0-9], what follows [\/]
RegPrefix(w) ==
    \/ Len(w) = 1 /\ IsDigit(w[1])
    \/ Len(w) = 2 /\ DigitIn(w[1], 0, 3) /\ DigitIn(w[2], 0, 2)
    \/ Len(w) = 2 /\ DigitIn(w[1], 1, 2) /\ IsDigit(w[2])

\* reg_cidr: ^(octet\.){3}octet([\/]prefix)?$
RegCidr(w) ==
    LET parts  == FieldsOf(w, "/")
        octets == FieldsOf(parts[1], ".")
    IN  /\ Len(parts) \in 1 .. 2
        /\ Len(octets) = 4
        /\ \A i \in 1 .. 4 : RegOctet(octets[i])
        /\ Len(parts) = 2 => RegPrefix(parts[2])

Xn == <<"x", "n", "-", "-">>

\* [a-z0-9-]{0,61}[a-z0-9]{1,1}
RegLabelBody(w) ==
    /\ Len(w) \in 1 .. 62
    /\ AllIn(w, LabelChar)
    /\ w[Len(w)] \in AlNum

\* ((?!-))(xn--|_{1,1})?[a-z0-9-]{0,61}[a-z0-9]{1,1}, what precedes \.
RegLabel(w) ==
    /\ w # <<>>
    /\ w[1] # "-"
    /\ \/ RegLabelBody(w)
       \/ StartsWith(w, Xn) /\ RegLabelBody(Drop(w, 4))
       \/ w[1] = "_" /\ RegLabelBody(Drop(w, 1))

\* [a-z0-9][a-z0-9\-]{0,60}
RegLastLabel(w) ==
    /\ Len(w) \in 1 .. 61
    /\ w[1] \in AlNum
    /\ AllIn(w, LabelChar)

\* [a-z0-9-]{1,30}\.[a-z]{2,}
RegLastTwo(u, v) ==
    /\ Len(u) \in 1 .. 30
    /\ AllIn(u, LabelChar)
    /\ Len(v) >= 2
    /\ AllIn(v, Lower)

\* (xn--)? before the last group: the part with and without it
XnOpt(w) == {w} \cup (IF StartsWith(w, Xn) THEN {Drop(w, 4)} ELSE {})

\* reg_domain: ^(label\.)*(xn--)?(last label|last two)$
RegDomain(w) ==
    LET f == FieldsOf(w, ".")
        k == Len(f)
    IN  \/ /\ \A i \in 1 .. k - 1 : RegLabel(f[i])
           /\ \E u \in XnOpt(f[k]) : RegLastLabel(u)
        \/ /\ k >= 2
           /\ \A i \in 1 .. k - 2 : RegLabel(f[i])
           /\ \E u \in XnOpt(f[k - 1]) : RegLastTwo(u, f[k])

\* reg_data_quota: ^[0-9]+(kb|mb|gb|kib|mib|gib)$
RegDataQuota(w) ==
    /\ LeadDigits(w) >= 1
    /\ UnitOf(w) \in { <<"k", "b">>, <<"m", "b">>, <<"g", "b">>,
                       <<"k", "i", "b">>, <<"m", "i", "b">>, <<"g", "i", "b">> }

\* a changed reg_time_quota, without the anchor at the end: ^[0-9]+(s|m|h)
RegTimeQuotaOpen(w) ==
    /\ LeadDigits(w) >= 1
    /\ \E k \in 1 .. Len(UnitOf(w)) : SubSeq(UnitOf(w), 1, k) \in { <<"s">>, <<"m">>, <<"h">> }

\* reg_time_quota: ^[0-9]+(s|m|h)$
RegTimeQuota(w) ==
    /\ LeadDigits(w) >= 1
    /\ UnitOf(w) \in { <<"s">>, <<"m">>, <<"h">> }

\* dest_str.parse::<Ipv4Network>(): without a prefix the network is one host,
\* /32; the two low bits of the address, the prefix length beyond /30
ParseIpv4Network(w) ==
    LET parts  == FieldsOf(w, "/")
        octets == FieldsOf(parts[1], ".")
        prefix == IF Len(parts) = 1 THEN 32 ELSE ParseNat(parts[2])
    IN  Cidr(ParseNat(octets[4]) % 4, IF prefix > 30 THEN prefix - 30 ELSE 0)

\* parse_duration::parse(quota_str), to_quota: seconds
ParseDuration(w) ==
    ParseNat(SubSeq(w, 1, LeadDigits(w)))
        * (CASE UnitOf(w) = <<"s">> -> 1 [] UnitOf(w) = <<"m">> -> 60 [] OTHER -> 3600)

\* Byte::from_str(quota_str), to_quota: bytes, here in units of 1000 bytes.
\* The unit is 1000 * thousands + rest bytes, and n units are
\* n * thousands + (n * rest) \div 1000 thousands of bytes
ByteUnit(thousands, rest) == [thousands |-> thousands, rest |-> rest]

ByteFromStr(w) ==
    LET n == ParseNat(SubSeq(w, 1, LeadDigits(w)))
        u == CASE UnitOf(w) = <<"k", "b">> -> ByteUnit(1, 0)
               [] UnitOf(w) = <<"m", "b">> -> ByteUnit(1000, 0)
               [] UnitOf(w) = <<"g", "b">> -> ByteUnit(1000000, 0)
               [] UnitOf(w) = <<"k", "i", "b">> -> ByteUnit(1, 24)
               [] UnitOf(w) = <<"m", "i", "b">> -> ByteUnit(1048, 576)
               [] OTHER -> ByteUnit(1073741, 824)
    IN  n * u.thousands + (n * u.rest) \div 1000

\* the resolver's answer to lookup_ip: the records of the names the files
\* use; every other name has no record, which is an error of the lookup
V4(a) == [v |-> 4, a |-> a]
V6(a) == [v |-> 6, a |-> a]

LookupIp(name) ==
    CASE name = <<"a", "b">> -> [ok |-> TRUE, addrs |-> <<V4(1), V4(3)>>]
      [] name = <<"c">>      -> [ok |-> TRUE, addrs |-> <<V6(1)>>]
      [] OTHER               -> [ok |-> FALSE, addrs |-> <<>>]

Ok(v)      == [res |-> "Ok", val |-> v]
Err(e)     == [res |-> "Err", val |-> e]
Panic      == [res |-> "Panic", val |-> "unwrap"]

\* accnt::Address::from_str: lookup_ip(s).unwrap(), one /32 per IPv4 address
RECURSIVE Ipv4Only(_)
Ipv4Only(addrs) ==
    IF addrs = <<>> THEN <<>>
    ELSE (IF Head(addrs).v = 4 THEN <<Cidr(Head(addrs).a, 2)>> ELSE <<>>)
             \o Ipv4Only(Tail(addrs))

AddressFromStr(s) ==
    IF s = <<>> THEN Ok(<<>>)
    ELSE IF ~LookupIp(s).ok THEN Panic
    ELSE Ok(Ipv4Only(LookupIp(s).addrs))

\* accnt::QuotaType::from_str
QuotaTypeFromStr(s) ==
    IF Len(s) = 0 THEN Err("Empty")
    ELSE IF Head(s) = "#" THEN Err("InnactiveEntry")
    ELSE LET v == SplitWhitespace(s)
         IN  IF Len(v) # 2 THEN Err("BadLen")
             ELSE LET dest_str  == v[1]
                      quota_str == v[2]
                      addr == IF RegCidr(dest_str) THEN Ok(<<ParseIpv4Network(dest_str)>>)
                              ELSE IF RegDomain(dest_str) THEN AddressFromStr(dest_str)
                              ELSE Err("InvalidHostFormat")
                  IN  IF addr.res # "Ok" THEN addr
                      ELSE IF RegTimeQuota(quota_str)
                      THEN Ok([type |-> "Time",
                               acc |-> Acc(addr.val, ParseDuration(quota_str))])
                      ELSE IF RegDataQuota(quota_str)
                      THEN Ok([type |-> "Data",
                               acc |-> Acc(addr.val, ByteFromStr(quota_str))])
                      ELSE Err("InvalidQuotaFormat")

\* ParseConfigError::EntryError(e, i)
EntryError(e, i) == [e |-> e, i |-> i]

\* Config::new()
ConfigNew == [data |-> <<>>, time |-> <<>>]

\* Config::new_from_file: the loop over lines.enumerate(), from line i on
RECURSIVE NewFromLines(_, _, _)
NewFromLines(lines, i, conf) ==
    IF i >= Len(lines) THEN Ok(conf)
    ELSE LET entry == QuotaTypeFromStr(lines[i + 1])
         IN  CASE entry.res = "Panic" -> Panic
               [] entry.res = "Ok" /\ entry.val.type = "Data" ->
                     NewFromLines(lines, i + 1, [conf EXCEPT !.data = Append(@, entry.val.acc)])
               [] entry.res = "Ok" /\ entry.val.type = "Time" ->
                     NewFromLines(lines, i + 1, [conf EXCEPT !.time = Append(@, entry.val.acc)])
               [] entry.res = "Err" /\ entry.val = "InnactiveEntry" ->
                     NewFromLines(lines, i + 1, conf)
               [] OTHER -> Err(EntryError(entry.val, i))

NewFromFile(lines) == NewFromLines(lines, 0, ConfigNew)

(***************************************************************************)
(* The lines and the policy files explored.                                *)
(***************************************************************************)
Host(a) == <<"0", ".", "0", ".", "0", ".", Digits[a + 1]>>

LineData1   == Host(2) \o <<"/", "3", "2", " ", "2", "k", "b">>
LineData2   == Host(2) \o <<"/", "3", "1", " ", "3", "k", "b">>
LineData3   == Host(0) \o <<" ", "1", "k", "b">>
LineTime1   == <<"a", "b", " ", "2", "s">>
LineTime2   == Host(1) \o <<"/", "3", "2", "\t", "1", "s">>
LineComment == <<"#", " ", "x">>

PolicyFiles == { <<LineComment, LineData1, LineTime1>>,
                 <<LineData2, LineTime2, LineData3>> }

Policies == { NewFromFile(f).val : f \in PolicyFiles }

\* a changed name: the position is left out, format!("{}", prefix)
EntryNameOfKind(prefix, pos) == <<prefix, 0>>

\* format!("{}{}", DATA_LOG_PREFIX | TIME_LOG_PREFIX, pos.to_string())
EntryName(prefix, pos) == <<prefix, pos>>

\* format!("{}{}", TIME_START_LOG_PREFIX | TIME_FIN_LOG_PREFIX, name)
Tag(prefix, name) == <<prefix, name>>

DataNames(cfg) == { EntryName(DATA_LOG_PREFIX, i - 1) : i \in 1 .. Len(cfg.data) }
TimeNames(cfg) == { EntryName(TIME_LOG_PREFIX, i - 1) : i \in 1 .. Len(cfg.time) }

\* the policy entry a name stands for (names count from 0, sequences from 1)
DataEntryOf(cfg, name) == cfg.data[name[2] + 1]
TimeEntryOf(cfg, name) == cfg.time[name[2] + 1]

Min(a, b) == IF a <= b THEN a ELSE b


RECURSIVE Flatten(_)
Flatten(ss) == IF ss = <<>> THEN <<>> ELSE Head(ss) \o Flatten(Tail(ss))

\* the orders in which an iteration over a HashMap may visit its keys
Orders(S) == { s \in [1 .. Cardinality(S) -> S] : Range(s) = S }

(***************************************************************************)
(* timer.rs: ConnTimer.  guard is the pending schedule of                  *)
(* schedule_repeating (dropping it cancels the schedule), cb the callback  *)
(* set by set_callback.                                                    *)
(***************************************************************************)
ConnTimerNew(target) ==
    [timer |-> FALSE, guard |-> FALSE, target_secs |-> target,
     current_secs |-> 0, active |-> FALSE, cb |-> FALSE]

ConnTimerSetCallback(t) == [t EXCEPT !.cb = TRUE]

ConnTimerStart(t) == [t EXCEPT !.guard = TRUE, !.timer = TRUE, !.active = TRUE]

ConnTimerStop(t) == [t EXCEPT !.guard = FALSE, !.timer = FALSE, !.active = FALSE]

ConnTimerReset(t) == [t EXCEPT !.current_secs = 0]

\* the closure of schedule_repeating, run once a second while the guard lives:
\* the count goes up; at the target the callback is looked at, but its call is
\* commented out, and the timer stops itself
ConnTimerTick(t) ==
    IF ~t.guard THEN t
    ELSE LET counted == [t EXCEPT !.current_secs = @ + 1]
         IN  IF counted.current_secs >= counted.target_secs
             THEN ConnTimerStop(counted)
             ELSE counted

(***************************************************************************)
(* netfilter.rs: the rules.  A rule is its chain and its expressions:      *)
(* l4tcp (meta l4proto == tcp), the address field compared (saddr/daddr)   *)
(* with the CIDR, the TCP flags test, the quota object evaluated, the log  *)
(* action and the verdict.  kind names the field of the rule set.          *)
(***************************************************************************)
NoQuota == [name |-> <<>>, type |-> "none", limit |-> 0]
NoLog   == <<>>

Rule(chain, kind, l4tcp, field, cidr, flags, quota, log, verdict) ==
    [chain |-> chain, kind |-> kind, l4tcp |-> l4tcp, field |-> field,
     cidr |-> cidr, flags |-> flags, quota |-> quota, log |-> log,
     verdict |-> verdict]

TimeLimitRuleset(out_chain, in_chain, ip, name) ==
    [start     |-> Rule(in_chain, "start", TRUE, "saddr", ip, "synack", NoQuota,
                        <<TIME_QUOTA_NUM, Tag(TIME_START_LOG_PREFIX, name)>>, "none"),
     in_fin    |-> Rule(in_chain, "in_fin", TRUE, "saddr", ip, "fin", NoQuota,
                        <<TIME_QUOTA_NUM, Tag(TIME_FIN_LOG_PREFIX, name)>>, "none"),
     out_fin   |-> Rule(out_chain, "out_fin", TRUE, "daddr", ip, "fin", NoQuota,
                        <<TIME_QUOTA_NUM, Tag(TIME_FIN_LOG_PREFIX, name)>>, "none"),
     block_in  |-> Rule(in_chain, "block_in", TRUE, "saddr", ip, "any", NoQuota,
                        NoLog, "reject"),
     block_out |-> Rule(out_chain, "block_out", TRUE, "daddr", ip, "any", NoQuota,
                        NoLog, "reject")]

\* the quota object of a data entry: Quota::new(name, table), Over, limit
QuotaObj(name, limit) == [name |-> name, type |-> "Over", limit |-> limit]

DataLimitRuleset(in_chain, ip, quota_obj) ==
    [block |-> Rule(in_chain, "block", FALSE, "saddr", ip, "any", quota_obj,
                    NoLog, "drop"),
     log   |-> Rule(in_chain, "log", FALSE, "saddr", ip, "any", quota_obj,
                    <<DATA_QUOTA_NUM, quota_obj.name>>, "none")]

NfTimeLimitNew(acc_entry, in_chain, out_chain, name) ==
    [timer |-> ConnTimerNew(acc_entry.quota),
     rules |-> [ip \in Range(acc_entry.addr) |->
                    TimeLimitRuleset(out_chain, in_chain, ip, name)]]

NfDataLimitNew(acc_entry, in_chain, name) ==
    LET quota == QuotaObj(name, acc_entry.quota)
    IN  [quota |-> quota,
         rules |-> [ip \in Range(acc_entry.addr) |->
                        DataLimitRuleset(in_chain, ip, quota)]]

(***************************************************************************)
(* Batches: sequences of messages {Add|Del, object}.                       *)
(***************************************************************************)
Msg(op, type, obj) == [op |-> op, type |-> type, obj |-> obj]

\* a changed NfTimeLimit::add: the list of NfTimeLimit::delete, block rules
\* included, sent as additions
NfTimeLimitAddAll(limit, order) ==
    Flatten([i \in 1 .. Len(order) |->
        << Msg("Add", "rule", limit.rules[order[i]].start),
           Msg("Add", "rule", limit.rules[order[i]].in_fin),
           Msg("Add", "rule", limit.rules[order[i]].out_fin),
           Msg("Add", "rule", limit.rules[order[i]].block_in),
           Msg("Add", "rule", limit.rules[order[i]].block_out) >>])

\* NfTimeLimit::add: the monitor rules of every rule set, in the map's order
NfTimeLimitAdd(limit, order) ==
    Flatten([i \in 1 .. Len(order) |->
        << Msg("Add", "rule", limit.rules[order[i]].start),
           Msg("Add", "rule", limit.rules[order[i]].in_fin),
           Msg("Add", "rule", limit.rules[order[i]].out_fin) >>])

\* NfTimeLimit::block: the block rules of every rule set
NfTimeLimitBlock(limit, order) ==
    Flatten([i \in 1 .. Len(order) |->
        << Msg("Add", "rule", limit.rules[order[i]].block_in),
           Msg("Add", "rule", limit.rules[order[i]].block_out) >>])

\* NfTimeLimit::unblock: the deletion of the block rules of every rule set
NfTimeLimitUnblock(limit, order) ==
    Flatten([i \in 1 .. Len(order) |->
        << Msg("Del", "rule", limit.rules[order[i]].block_in),
           Msg("Del", "rule", limit.rules[order[i]].block_out) >>])

\* NfDataLimit::block: the deletion of the log rule of every rule set
NfDataLimitBlock(limit, order) ==
    [i \in 1 .. Len(order) |-> Msg("Del", "rule", limit.rules[order[i]].log)]

\* NfDataLimit::add: the block rule, then the log rule, of every rule set
NfDataLimitAdd(limit, order) ==
    Flatten([i \in 1 .. Len(order) |->
        << Msg("Add", "rule", limit.rules[order[i]].block),
           Msg("Add", "rule", limit.rules[order[i]].log) >>])

\* a changed init batch: the table is sent and committed on its own, the
\* chains are left to a later batch
InitBatchTableOnly == << Msg("Add", "table", TABLE_NAME) >>

\* init: the table and the four chains, one batch
InitBatch ==
    << Msg("Add", "table", TABLE_NAME),
       Msg("Add", "chain", DATA_IN_CHAIN_NAME),
       Msg("Add", "chain", DATA_OUT_CHAIN_NAME),
       Msg("Add", "chain", TIME_IN_CHAIN_NAME),
       Msg("Add", "chain", TIME_OUT_CHAIN_NAME) >>

\* deinit: the table, with all it holds
DeinitBatch == << Msg("Del", "table", TABLE_NAME) >>

(***************************************************************************)
(* The kernel side of the control channel.  A batch is a transaction: its  *)
(* messages apply in order, and one message that cannot apply (a chain     *)
(* without its table, a rule without its chain, the deletion of an absent  *)
(* table) refuses the whole batch.  The kernel may also refuse a batch     *)
(* that could apply (no permission, an object the batch refers to is not   *)
(* in the table, no buffer space).  Deleting the table removes its chains, *)
(* rules, quota objects and counters.  A quota object enters the table by  *)
(* a message that adds it; the counter of a quota expression is kept under *)
(* the name the expression carries.  The deletion of a rule names the rule *)
(* by its table, chain and expressions and carries no handle: the kernel   *)
(* removes the rule of the chain that has these expressions (refusing when *)
(* there is none) or, taking the message for one about the chain, every    *)
(* rule of the chain (flush).                                              *)
(***************************************************************************)
NoRules == [c \in ChainNames |-> <<>>]

Kernel(t, cs, rs, qs, cons) == [ok |-> TRUE, table |-> t, chains |-> cs, rules |-> rs,
                                quotas |-> qs, consumed |-> cons, flush |-> FALSE]

\* the sequence without the first of its elements that equals r
RemoveFirst(rs, r) ==
    LET k == CHOOSE i \in 1 .. Len(rs) : rs[i] = r /\ \A j \in 1 .. i - 1 : rs[j] # r
    IN  SubSeq(rs, 1, k - 1) \o SubSeq(rs, k + 1, Len(rs))

ApplyMsg(k, m) ==
    CASE ~k.ok -> k
      [] m.op = "Add" /\ m.type = "table" -> [k EXCEPT !.table = TRUE]
      [] m.op = "Add" /\ m.type = "chain" ->
            IF k.table THEN [k EXCEPT !.chains = @ \cup {m.obj}]
            ELSE [k EXCEPT !.ok = FALSE]
      [] m.op = "Add" /\ m.type = "quota" ->
            IF k.table THEN [k EXCEPT !.quotas = @ \cup {m.obj.name}]
            ELSE [k EXCEPT !.ok = FALSE]
      [] m.op = "Add" /\ m.type = "rule" ->
            IF m.obj.chain \in k.chains
            THEN [k EXCEPT !.rules[m.obj.chain] = Append(@, m.obj)]
            ELSE [k EXCEPT !.ok = FALSE]
      [] m.op = "Del" /\ m.type = "rule" ->
            IF m.obj.chain \notin k.chains THEN [k EXCEPT !.ok = FALSE]
            ELSE IF k.flush THEN [k EXCEPT !.rules[m.obj.chain] = <<>>]
            ELSE IF m.obj \in Range(k.rules[m.obj.chain])
            THEN [k EXCEPT !.rules[m.obj.chain] = RemoveFirst(@, m.obj)]
            ELSE [k EXCEPT !.ok = FALSE]
      [] m.op = "Del" /\ m.type = "table" ->
            IF k.table
            THEN [k EXCEPT !.table = FALSE, !.chains = {}, !.rules = NoRules,
                           !.quotas = {}, !.consumed = [n \in DOMAIN @ |-> 0]]
            ELSE [k EXCEPT !.ok = FALSE]
      [] OTHER -> [k EXCEPT !.ok = FALSE]

RECURSIVE ApplyBatch(_, _)
ApplyBatch(k, batch) ==
    IF batch = <<>> THEN k ELSE ApplyBatch(ApplyMsg(k, Head(batch)), Tail(batch))

\* what the kernel may answer to a batch: the commit (TRUE) where the batch
\* applies, and the refusal (FALSE)
Answers(k, batch) == IF ApplyBatch(k, batch).ok THEN {TRUE, FALSE} ELSE {FALSE}

KernelNow == Kernel(table, chains, rules, quotas, consumed)

\* how the kernel may take the batch: the two readings of a deletion of a
\* rule, where the batch holds one
FlushModes(batch) ==
    IF \E i \in 1 .. Len(batch) : batch[i].op = "Del" /\ batch[i].type = "rule"
    THEN BOOLEAN ELSE {FALSE}

\* process_netlink: the batch is sent and the kernel answers `accept`
ProcessNetlink(batch, accept) ==
    \E flush \in FlushModes(batch) :
        LET now == [KernelNow EXCEPT !.flush = flush]
        IN  /\ accept \in Answers(now, batch)
            /\ LET k == IF accept THEN ApplyBatch(now, batch) ELSE now
               IN  /\ table' = k.table
                   /\ chains' = k.chains
                   /\ rules' = k.rules
                   /\ quotas' = k.quotas
                   /\ consumed' = k.consumed


(***************************************************************************)
(* The kernel's evaluation of a packet.  A packet is its hook (dir), the   *)
(* remote address (the source of an inbound packet, the destination of an  *)
(* outbound one; the host's own address is in no CIDR of the policy), its  *)
(* kind (TCP with SYN+ACK, TCP with FIN or RST, other TCP, not TCP) and    *)
(* its length.  A rule's expressions are evaluated in order and the first  *)
(* that does not match ends the rule; a quota expression adds the packet's *)
(* length to its counter each time it is evaluated and, being of type      *)
(* Over, matches when the counter has reached the limit.                   *)
(***************************************************************************)
PktKinds == {"synack", "fin", "tcp", "udp"}

Pkt(dir, addr, kind, len) == [dir |-> dir, addr |-> addr, kind |-> kind, len |-> len]

Eval(verdict, cons, logs) == [verdict |-> verdict, consumed |-> cons, logs |-> logs]

AddrMatches(r, p) ==
    /\ (r.field = "saddr" /\ p.dir = "in") \/ (r.field = "daddr" /\ p.dir = "out")
    /\ MatchCidr(p.addr, r.cidr)

FlagsMatch(r, p) ==
    CASE r.flags = "synack" -> p.kind = "synack"
      [] r.flags = "fin"    -> p.kind = "fin"
      [] OTHER              -> TRUE

EvalRule(r, p, e) ==
    IF ~((r.l4tcp => p.kind # "udp") /\ AddrMatches(r, p) /\ FlagsMatch(r, p))
    THEN e
    ELSE LET cons == IF r.quota.type = "none" THEN e.consumed
                     ELSE [e.consumed EXCEPT ![r.quota.name] = @ + p.len]
             over == r.quota.type = "none" \/ cons[r.quota.name] >= r.quota.limit
         IN  IF ~over THEN Eval(e.verdict, cons, e.logs)
             ELSE Eval(IF r.verdict = "none" THEN e.verdict ELSE r.verdict,
                       cons,
                       IF r.log = NoLog THEN e.logs ELSE Append(e.logs, r.log))

RECURSIVE EvalChain(_, _, _)
EvalChain(rs, p, e) ==
    IF rs = <<>> \/ e.verdict # "accept" THEN e
    ELSE EvalChain(Tail(rs), p, EvalRule(Head(rs), p, e))

\* the base chains of a hook, in the order init creates them
HookChains(dir) == IF dir = "in" THEN <<DATA_IN_CHAIN_NAME, TIME_IN_CHAIN_NAME>>
                   ELSE <<DATA_OUT_CHAIN_NAME, TIME_OUT_CHAIN_NAME>>

EvalPacket(p) ==
    LET cs == HookChains(p.dir)
        e0 == Eval("accept", consumed, <<>>)
        e1 == EvalChain(rules[cs[1]], p, e0)
    IN  EvalChain(rules[cs[2]], p, e1)

(***************************************************************************)
(* What the claims speak about.                                            *)
(***************************************************************************)
Alive == pc \notin {"exit0", "exit1", "panic"}

Installed(r) == \E i \in 1 .. Len(rules[r.chain]) : rules[r.chain][i] = r

TimerExpired(t) == t.current_secs >= t.target_secs

\* the data entry whose quota is exhausted: its counter has reached the limit
DataExhausted(n) ==
    /\ n \in DOMAIN data_entries
    /\ \E ip \in DOMAIN data_entries[n].rules : Installed(data_entries[n].rules[ip].block)
    /\ consumed[n] >= data_entries[n].quota.limit

TimeExhausted(n) ==
    /\ n \in DOMAIN time_entries
    /\ TimerExpired(time_entries[n].timer)

\* a quota that covers the address is exhausted
QuotaGone(a) ==
    \/ \E n \in DataNames(config) :
          DataExhausted(n) /\ \E c \in Range(DataEntryOf(config, n).addr) : InCidr(a, c)
    \/ \E n \in TimeNames(config) :
          TimeExhausted(n) /\ \E c \in Range(TimeEntryOf(config, n).addr) : InCidr(a, c)

\* the data entries whose rule set (drop and log rule) for a CIDR holding the
\* source of the inbound packet is installed
Counting(p) ==
    { n \in DOMAIN data_entries :
        /\ p.dir = "in"
        /\ \E ip \in DOMAIN data_entries[n].rules :
              /\ InCidr(p.addr, ip)
              /\ Installed(data_entries[n].rules[ip].block)
              /\ Installed(data_entries[n].rules[ip].log) }

Logged(e, group) == { e.logs[i][2] : i \in { j \in 1 .. Len(e.logs) : e.logs[j][1] = group } }


(***************************************************************************)
(* The initial state: the process has loaded its policy file, the signal   *)
(* thread waits, the kernel holds no table netcontrol.                     *)
(***************************************************************************)
NoObs  == [last |-> "none", conns |-> 0, run |-> 0, open |-> 0]
NoAcct == [arrived |-> 0, notified |-> FALSE, received |-> FALSE]
NoErr  == EntryError("none", 0)
NoApi  == [last |-> "none", name |-> <<>>, pre |-> NoRules]

InitOf(files) ==
    /\ file \in files
    /\ config = NewFromFile(file).val
    /\ err = NoErr
    /\ api = NoApi
    /\ pc = "handle"
    /\ idx = 0
    /\ sigpc = "wait"
    /\ handle = FALSE
    /\ data_entries = <<>>
    /\ time_entries = <<>>
    /\ groups = {}
    /\ table = FALSE
    /\ chains = {}
    /\ rules = NoRules
    /\ quotas = {}
    /\ consumed = [n \in DataNames(config) |-> 0]
    /\ logq = <<>>
    /\ clock = 0
    /\ obs = [n \in TimeNames(config) |-> NoObs]
    /\ acct = [n \in DataNames(config) |-> NoAcct]

Init == InitOf(PolicyFiles)

(***************************************************************************)
(* netfilter.rs: init, statement group by statement group.                 *)
(***************************************************************************)
\* where init goes on after the topology batch, and after the data loop
AfterTopology(cfg) == IF Len(cfg.data) > 0 THEN "data"
                      ELSE IF Len(cfg.time) > 0 THEN "time" ELSE "bind"
AfterData(cfg)     == IF Len(cfg.time) > 0 THEN "time" ELSE "bind"

\* NfHandle::new(TABLE_NAME); HANDLE_INSTANCE.set(handle)
InitHandle ==
    /\ pc = "handle"
    /\ handle' = TRUE
    /\ pc' = "topology"
    /\ UNCHANGED <<config, idx, sigpc, data_entries, time_entries, groups>>
    /\ UNCHANGED kernel
    /\ UNCHANGED hist
    /\ UNCHANGED boot

\* the table and the four chains: process_netlink(init_batch, false)
InitTopology ==
    /\ pc = "topology"
    /\ \E accept \in BOOLEAN : ProcessNetlink(InitBatch, accept)
    /\ pc' = AfterTopology(config)
    /\ idx' = 0
    /\ UNCHANGED <<config, sigpc, handle, data_entries, time_entries, groups, logq>>
    /\ UNCHANGED hist
    /\ UNCHANGED boot

\* one round of the loop over config.data: NfDataLimit::new, limit.add(),
\* data_entries.insert(name, limit)
InitDataEntry ==
    /\ pc = "data"
    /\ LET name  == EntryName(DATA_LOG_PREFIX, idx)
           limit == NfDataLimitNew(config.data[idx + 1], DATA_IN_CHAIN_NAME, name)
       IN  /\ \E order \in Orders(DOMAIN limit.rules), accept \in BOOLEAN :
                 ProcessNetlink(NfDataLimitAdd(limit, order), accept)
           /\ data_entries' = (name :> limit) @@ data_entries
    /\ IF idx + 1 < Len(config.data)
       THEN idx' = idx + 1 /\ pc' = pc
       ELSE idx' = 0 /\ pc' = AfterData(config)
    /\ UNCHANGED <<config, sigpc, handle, time_entries, groups, logq>>
    /\ UNCHANGED hist
    /\ UNCHANGED boot

\* one round of the loop over config.time: NfTimeLimit::new, limit.add() (the
\* monitor rules, then set_callback), time_entries.insert(name, limit)
InitTimeEntry ==
    /\ pc = "time"
    /\ LET name  == EntryName(TIME_LOG_PREFIX, idx)
           limit == NfTimeLimitNew(config.time[idx + 1], TIME_IN_CHAIN_NAME,
                                   TIME_OUT_CHAIN_NAME, name)
       IN  /\ \E order \in Orders(DOMAIN limit.rules), accept \in BOOLEAN :
                 ProcessNetlink(NfTimeLimitAdd(limit, order), accept)
           /\ time_entries' =
                 (name :> [limit EXCEPT !.timer = ConnTimerSetCallback(@)]) @@ time_entries
    /\ IF idx + 1 < Len(config.time)
       THEN idx' = idx + 1 /\ pc' = pc
       ELSE idx' = 0 /\ pc' = "bind"
    /\ UNCHANGED <<config, sigpc, handle, data_entries, groups, logq>>
    /\ UNCHANGED hist
    /\ UNCHANGED boot

\* bind_group(DATA_QUOTA_NUM), bind_group(TIME_QUOTA_NUM), set_callback, push;
\* init returns Ok(()) and run() enters the loop of the log queue
InitBind ==
    /\ pc = "bind"
    /\ groups' = {DATA_QUOTA_NUM, TIME_QUOTA_NUM}
    /\ pc' = "run"
    /\ UNCHANGED <<config, idx, sigpc, handle, data_entries, time_entries>>
    /\ UNCHANGED kernel
    /\ UNCHANGED hist
    /\ UNCHANGED boot

(***************************************************************************)
(* netfilter.rs: run, the callbacks of the two groups.  Neither callback   *)
(* touches the handle, an entry or a timer: each writes a debug line.      *)
(***************************************************************************)
\* data_quota_cb(msg)
DataQuotaCb(msg) ==
    /\ UNCHANGED <<handle, data_entries, time_entries, groups>>
    /\ UNCHANGED <<table, chains, rules, quotas, consumed>>

\* time_quota_cb(msg)
TimeQuotaCb(msg) ==
    /\ UNCHANGED <<handle, data_entries, time_entries, groups>>
    /\ UNCHANGED <<table, chains, rules, quotas, consumed>>

\* the history of what the callbacks received
ObsAfter(o, prefix) ==
    IF prefix = TIME_START_LOG_PREFIX
    THEN [o EXCEPT !.last = "start", !.conns = Min(@ + 1, MaxConns)]
    ELSE [o EXCEPT !.last = "fin", !.conns = IF @ > 0 THEN @ - 1 ELSE 0]

\* run_loop: one message of the queue is handed to the callback of its group
Dispatch ==
    /\ pc = "run"
    /\ logq # <<>>
    /\ LET msg == Head(logq)
       IN  /\ IF msg[1] = DATA_QUOTA_NUM THEN DataQuotaCb(msg) ELSE TimeQuotaCb(msg)
           /\ obs' = IF msg[1] = TIME_QUOTA_NUM
                     THEN [obs EXCEPT ![msg[2][2]] = ObsAfter(@, msg[2][1])]
                     ELSE obs
           /\ acct' = IF msg[1] = DATA_QUOTA_NUM
                      THEN [acct EXCEPT ![msg[2]].received = TRUE]
                      ELSE acct
    /\ logq' = Tail(logq)
    /\ UNCHANGED <<config, pc, idx, sigpc, clock>>
    /\ UNCHANGED boot

(***************************************************************************)
(* main.rs: the signal thread.  On a signal it runs deinit().unwrap() and  *)
(* then exit(0).  deinit takes the handle (a panic when it is not set),    *)
(* sends the deletion of the table and waits for the kernel's answer; a    *)
(* refusal is an Err, which unwrap turns into a panic of the thread.       *)
(***************************************************************************)
\* a changed deinit: process_netlink(batch, false), the answer is not waited for
SignalDeinitNoAck ==
    /\ sigpc = "wait"
    /\ Alive
    /\ IF ~handle
       THEN sigpc' = "panicked" /\ UNCHANGED <<table, chains, rules, quotas, consumed>>
       ELSE \E accept \in BOOLEAN :
               /\ ProcessNetlink(DeinitBatch, accept)
               /\ sigpc' = "exiting"
    /\ UNCHANGED <<config, pc, idx, handle, data_entries, time_entries, groups, logq>>
    /\ UNCHANGED hist
    /\ UNCHANGED boot

SignalDeinit ==
    /\ sigpc = "wait"
    /\ Alive
    /\ IF ~handle
       THEN sigpc' = "panicked" /\ UNCHANGED <<table, chains, rules, quotas, consumed>>
       ELSE \E accept \in BOOLEAN :
               /\ ProcessNetlink(DeinitBatch, accept)
               /\ sigpc' = IF accept THEN "exiting" ELSE "panicked"
    /\ UNCHANGED <<config, pc, idx, handle, data_entries, time_entries, groups, logq>>
    /\ UNCHANGED hist
    /\ UNCHANGED boot

\* std::process::exit(0)
SignalExit ==
    /\ sigpc = "exiting"
    /\ Alive
    /\ sigpc' = "exited"
    /\ pc' = "exit0"
    /\ UNCHANGED <<config, idx, handle, data_entries, time_entries, groups>>
    /\ UNCHANGED kernel
    /\ UNCHANGED hist
    /\ UNCHANGED boot

(***************************************************************************)
(* The environment: packets and the clock.                                 *)
(***************************************************************************)
\* the packets explored: every hook, address and kind, and two lengths
Packets ==
    { Pkt(dir, a, kind, 1) : dir \in {"in", "out"}, a \in Addr, kind \in PktKinds }
      \cup { Pkt("in", a, "tcp", 2) : a \in Addr }

\* a packet crosses its hook: the rules count, log and decide; a log message
\* reaches the queue when its group is bound.  A packet that no rule counts
\* and that sends no message leaves every variable as it is: that step is a
\* stuttering step and is left out
Packet ==
    /\ Alive
    /\ \E p \in Packets :
          \E e \in {EvalPacket(p)}, cnt \in {Counting(p)} :
              /\ e.consumed # consumed \/ \E i \in 1 .. Len(e.logs) : e.logs[i][1] \in groups
              /\ \A n \in DOMAIN consumed : e.consumed[n] <= MaxBytes
              /\ \A n \in cnt : acct[n].arrived + p.len <= MaxBytes
              /\ \E sent \in {SelectSeq(e.logs, LAMBDA l : l[1] \in groups)} :
                    /\ Len(logq) + Len(sent) <= MaxLogQ
                    /\ logq' = logq \o sent
              /\ consumed' = e.consumed
              /\ acct' = [n \in DOMAIN acct |->
                            [acct[n] EXCEPT
                               !.arrived = IF n \in cnt THEN @ + p.len ELSE @,
                               !.notified = @ \/ n \in Logged(e, DATA_QUOTA_NUM)]]
    /\ UNCHANGED prog
    /\ UNCHANGED <<table, chains, rules, quotas, clock, obs>>
    /\ UNCHANGED boot

\* a second passes: every pending schedule runs its closure.  The clock counts
\* from the entry into the run loop: before it no schedule is pending and no
\* event has been received, so that an earlier second changes nothing
Tick ==
    /\ pc = "run"
    /\ clock < MaxClock
    /\ clock' = clock + 1
    /\ time_entries' = [n \in DOMAIN time_entries |->
                          [time_entries[n] EXCEPT !.timer = ConnTimerTick(@)]]
    /\ obs' = [n \in DOMAIN obs |->
                 [obs[n] EXCEPT !.run  = IF obs[n].last = "start" THEN @ + 1 ELSE @,
                                !.open = IF obs[n].conns > 0 THEN @ + 1 ELSE @]]
    /\ UNCHANGED <<config, pc, idx, sigpc, handle, data_entries, groups>>
    /\ UNCHANGED kernel
    /\ UNCHANGED acct
    /\ UNCHANGED boot

Next ==
    \/ InitHandle
    \/ InitTopology
    \/ InitDataEntry
    \/ InitTimeEntry
    \/ InitBind
    \/ Dispatch
    \/ SignalDeinit
    \/ SignalExit
    \/ Packet
    \/ Tick

Spec == Init /\ [][Next]_vars

(***************************************************************************)
(* The same program on policies at the edge of the grammar: an entry of    *)
(* each kind with a quota of zero, and two data entries for one CIDR.      *)
(***************************************************************************)
LineDataZero == Host(2) \o <<"/", "3", "2", " ", "0", "k", "b">>
LineTimeZero == Host(1) \o <<"/", "3", "2", " ", "0", "s">>
LineDup1     == Host(2) \o <<"/", "3", "2", " ", "1", "k", "b">>
LineDup2     == Host(2) \o <<"/", "3", "2", " ", "3", "k", "b">>

EdgeFiles == { <<LineDataZero, LineTimeZero>>, <<LineDup1, LineDup2>> }

InitEdge == InitOf(EdgeFiles)

SpecEdge == InitEdge /\ [][Next]_vars

(***************************************************************************)
(* main.rs: the start of the process.  run() loads the policy file with    *)
(* Config::new_from_file(..).unwrap() and goes on to netfilter::init: an   *)
(* Err of new_from_file, as a panic inside it, unwinds the main thread     *)
(* (pc = "panic": the process ends with the status of a panic, 101, the    *)
(* error in the panic message), and never reaches the arms of main that    *)
(* exit with 1.  The files explored are all files of up to MaxLines lines  *)
(* taken from Lines.                                                       *)
(***************************************************************************)
LineBlank    == <<>>
LineSpaces   == <<" ">>
LineIndented == <<" ", "#", " ", "x">>
LineNoAddr   == <<"c", " ", "1", "s">>
LineNoRecord == <<"d", " ", "1", "s">>
LineBadQuota == Host(2) \o <<" ", "1", "7", "x", "b">>
LineOneField == <<"2">>

Lines == { LineBlank, LineSpaces, LineComment, LineIndented, LineData1, LineData3,
           LineTime1, LineTime2, LineNoAddr, LineNoRecord, LineBadQuota, LineOneField }

Files == UNION { [1 .. n -> Lines] : n \in 0 .. MaxLines }

\* the process before run() has read the file
NotLoaded ==
    /\ config = ConfigNew
    /\ err = NoErr
    /\ api = NoApi
    /\ pc = "load"
    /\ idx = 0
    /\ sigpc = "wait"
    /\ handle = FALSE
    /\ data_entries = <<>>
    /\ time_entries = <<>>
    /\ groups = {}
    /\ table = FALSE
    /\ chains = {}
    /\ rules = NoRules
    /\ quotas = {}
    /\ consumed = <<>>
    /\ logq = <<>>
    /\ clock = 0
    /\ obs = <<>>
    /\ acct = <<>>

InitLoad ==
    /\ file \in Files
    /\ NotLoaded

\* run: Config::new_from_file(args::get_config(&arguments)).unwrap()
LoadConfig ==
    /\ pc = "load"
    /\ LET r == NewFromFile(file)
       IN  CASE r.res = "Ok" ->
                   /\ config' = r.val
                   /\ err' = err
                   /\ pc' = "handle"
             [] r.res = "Err" ->
                   /\ config' = config
                   /\ err' = r.val
                   /\ pc' = "panic"
             [] OTHER ->
                   /\ config' = config
                   /\ err' = err
                   /\ pc' = "panic"
    /\ consumed' = [n \in DataNames(config') |-> 0]
    /\ obs' = [n \in TimeNames(config') |-> NoObs]
    /\ acct' = [n \in DataNames(config') |-> NoAcct]
    /\ UNCHANGED <<file, api, idx, sigpc, handle, data_entries, time_entries, groups>>
    /\ UNCHANGED <<table, chains, rules, quotas, logq, clock>>

NextLoad ==
    \/ LoadConfig
    \/ InitHandle
    \/ InitTopology
    \/ InitDataEntry
    \/ InitTimeEntry
    \/ InitBind

SpecLoad == InitLoad /\ [][NextLoad]_vars

(***************************************************************************)
(* config.rs: QuotaType::from_str on the tokens of one entry.  The files   *)
(* explored have one line of two tokens: every dotted quad of OctetStrs,   *)
(* alone and with every prefix length of PrefixStrs, before a quota that   *)
(* is in order; and a host that is in order before every quota token of up *)
(* to MaxTok characters of QuotaChars.                                     *)
(***************************************************************************)
OctetStrs  == { <<"1">>, <<"1", "6", "8">>, <<"1", "9", "2">>, <<"2", "5", "5">>,
                <<"2", "5", "6">>, <<"3", "0", "0">> }
PrefixStrs == { <<"0">>, <<"8">>, <<"3", "0">>, <<"3", "2">>, <<"3", "3">>, <<"4", "0">> }
QuotaChars == {"1", "s", "m", "h", "k", "g", "i", "b", "f"}

Quads == { a \o <<".">> \o b \o <<".">> \o c \o <<".">> \o d : a, b, c, d \in OctetStrs }

HostTokens == Quads \cup { q \o <<"/">> \o p : q \in Quads, p \in PrefixStrs }

QuotaTokens == UNION { [1 .. n -> QuotaChars] : n \in 1 .. MaxTok }

TokenFiles ==
    { << h \o <<" ", "1", "s">> >> : h \in HostTokens }
        \cup { << Host(2) \o <<" ">> \o q >> : q \in QuotaTokens }

InitTokens ==
    /\ file \in TokenFiles
    /\ NotLoaded

SpecTokens == InitTokens /\ [][LoadConfig]_vars

(***************************************************************************)
(* netfilter.rs, timer.rs: the operations on the entries of the handle:    *)
(* NfAction::block and unblock of a time and of a data entry, and start,   *)
(* stop and reset of an entry's ConnTimer.  The program calls none of them *)
(* (the callbacks of the log groups are stubs, the call of the timer's     *)
(* callback is commented out); here a caller applies them, in any order,   *)
(* to the entries init has created.  api remembers the last block that the *)
(* kernel committed, the rules before it, and an unblock of the same entry *)
(* that followed it.                                                       *)
(***************************************************************************)
Blocked(n)   == [last |-> "block", name |-> n, pre |-> rules]
Unblocked(n) == IF api.last = "block" /\ api.name = n
                THEN [api EXCEPT !.last = "unblock"]
                ELSE NoApi

\* self.block() of the NfTimeLimit n
TimeBlock(n) ==
    /\ pc = "run"
    /\ LET limit == time_entries[n]
       IN  \E order \in Orders(DOMAIN limit.rules), accept \in BOOLEAN :
              /\ ProcessNetlink(NfTimeLimitBlock(limit, order), accept)
              /\ api' = IF accept THEN Blocked(n) ELSE NoApi
    /\ \A c \in ChainNames : Len(rules'[c]) <= MaxRules
    /\ UNCHANGED <<config, pc, idx, sigpc, handle, data_entries, time_entries, groups, logq>>
    /\ UNCHANGED hist
    /\ UNCHANGED <<file, err>>

\* self.unblock() of the NfTimeLimit n
TimeUnblock(n) ==
    /\ pc = "run"
    /\ LET limit == time_entries[n]
       IN  \E order \in Orders(DOMAIN limit.rules), accept \in BOOLEAN :
              /\ ProcessNetlink(NfTimeLimitUnblock(limit, order), accept)
              /\ api' = IF accept THEN Unblocked(n) ELSE NoApi
    /\ UNCHANGED <<config, pc, idx, sigpc, handle, data_entries, time_entries, groups, logq>>
    /\ UNCHANGED hist
    /\ UNCHANGED <<file, err>>

\* self.block() of the NfDataLimit n
DataBlock(n) ==
    /\ pc = "run"
    /\ LET limit == data_entries[n]
       IN  \E order \in Orders(DOMAIN limit.rules), accept \in BOOLEAN :
              /\ ProcessNetlink(NfDataLimitBlock(limit, order), accept)
              /\ api' = IF accept THEN Blocked(n) ELSE NoApi
    /\ UNCHANGED <<config, pc, idx, sigpc, handle, data_entries, time_entries, groups, logq>>
    /\ UNCHANGED hist
    /\ UNCHANGED <<file, err>>

\* self.unblock() of the NfDataLimit n: the body is a TODO, nothing is sent
DataUnblock(n) ==
    /\ pc = "run"
    /\ api' = Unblocked(n)
    /\ UNCHANGED prog
    /\ UNCHANGED kernel
    /\ UNCHANGED hist
    /\ UNCHANGED <<file, err>>

\* timer.start(), timer.stop(), timer.reset() of the NfTimeLimit n
TimerCall(n, op) ==
    /\ pc = "run"
    /\ time_entries' = [time_entries EXCEPT ![n].timer =
            CASE op = "start" -> ConnTimerStart(@)
              [] op = "stop"  -> ConnTimerStop(@)
              [] OTHER        -> ConnTimerReset(@)]
    /\ UNCHANGED <<config, pc, idx, sigpc, handle, data_entries, groups>>
    /\ UNCHANGED kernel
    /\ UNCHANGED hist
    /\ UNCHANGED boot

NextOps ==
    \/ InitHandle
    \/ InitTopology
    \/ InitDataEntry
    \/ InitTimeEntry
    \/ InitBind
    \/ \E n \in DOMAIN time_entries : TimeBlock(n)
    \/ \E n \in DOMAIN time_entries : TimeUnblock(n)
    \/ \E n \in DOMAIN data_entries : DataBlock(n)
    \/ \E n \in DOMAIN data_entries : DataUnblock(n)
    \/ \E n \in DOMAIN time_entries, op \in {"start", "stop", "reset"} : TimerCall(n, op)
    \/ Tick
    \/ SignalDeinit
    \/ SignalExit

SpecOps == Init /\ [][NextOps]_vars


(***************************************************************************)
(* The rule sets the policy asks for.                                      *)
(***************************************************************************)
TimeRules(n) == NfTimeLimitNew(TimeEntryOf(config, n), TIME_IN_CHAIN_NAME,
                               TIME_OUT_CHAIN_NAME, n).rules
DataRules(n) == NfDataLimitNew(DataEntryOf(config, n), DATA_IN_CHAIN_NAME, n).rules

BlockInstalled(n) ==
    \E ip \in DOMAIN TimeRules(n) :
        Installed(TimeRules(n)[ip].block_in) \/ Installed(TimeRules(n)[ip].block_out)

BlockedBothWays(n) ==
    \A ip \in DOMAIN TimeRules(n) :
        Installed(TimeRules(n)[ip].block_in) /\ Installed(TimeRules(n)[ip].block_out)

Monitored(n) ==
    \A ip \in DOMAIN TimeRules(n) :
        /\ Installed(TimeRules(n)[ip].start)
        /\ Installed(TimeRules(n)[ip].in_fin)
        /\ Installed(TimeRules(n)[ip].out_fin)

(***************************************************************************)
(* C1.  The block_in/block_out rules of a time entry are in the classifier *)
(* only if the entry's timer has reached limit_seconds: after init, and    *)
(* whatever start_/fin_ events were delivered, an entry whose timer has    *)
(* not expired has no block rule installed.                                *)
(***************************************************************************)
C1_BlockOnlyIfExpired ==
    \A n \in TimeNames(config) :
        BlockInstalled(n) =>
            n \in DOMAIN time_entries /\ TimerExpired(time_entries[n].timer)

\* an entry under watch that received start_, ran for a second, and is not blocked
C1_Witness ==
    \E n \in DOMAIN time_entries :
        /\ Monitored(n)
        /\ obs[n].last = "start"
        /\ obs[n].run > 0
        /\ ~TimerExpired(time_entries[n].timer)
        /\ ~BlockInstalled(n)

(***************************************************************************)
(* C2.  A connection that stays open for limit_seconds leads to block      *)
(* rules in both directions: once a time entry has been Running (start_    *)
(* received, no fin_ since) for limit_seconds, with the table in place,    *)
(* for every CIDR of the entry block_in and block_out are installed.       *)
(***************************************************************************)
C2_OpenForLimitIsBlocked ==
    \A n \in DOMAIN time_entries :
        ( /\ pc = "run"
          /\ table
          /\ Monitored(n)
          /\ obs[n].last = "start"
          /\ obs[n].run >= time_entries[n].timer.target_secs )
        => BlockedBothWays(n)

(***************************************************************************)
(* C3.  Pausing keeps the elapsed time and resuming continues from it: the *)
(* elapsed count of an entry's timer is the cumulative time the entry      *)
(* spent Running (between a start_ and the next fin_), and the timer has   *)
(* expired exactly when that time has reached limit_seconds.               *)
(***************************************************************************)
C3_ElapsedIsTimeRunning ==
    \A n \in DOMAIN time_entries :
        LET t == time_entries[n].timer
        IN  /\ t.current_secs = Min(obs[n].run, t.target_secs)
            /\ TimerExpired(t) <=> obs[n].run >= t.target_secs

(***************************************************************************)
(* C4.  A start_<name> event delivered for an Idle entry makes it Running, *)
(* its timer started; a fin_<name> event delivered for a Running entry     *)
(* makes it Idle, its timer paused.                                        *)
(***************************************************************************)
C4_EventsDriveTimer ==
    \A n \in DOMAIN time_entries :
        LET t == time_entries[n].timer
        IN  /\ (obs[n].last = "start" /\ ~TimerExpired(t)) => t.active
            /\ obs[n].last = "fin" => ~t.active

(***************************************************************************)
(* C5.  Time is charged exactly while at least one observed connection is  *)
(* open (a start_ received whose fin_ has not been): the seconds charged   *)
(* to an entry are the seconds it had a connection open, up to the limit.  *)
(***************************************************************************)
C5_ChargedWhileOpen ==
    \A n \in DOMAIN time_entries :
        time_entries[n].timer.current_secs
            = Min(obs[n].open, time_entries[n].timer.target_secs)

(***************************************************************************)
(* C6.  After the event dq_<i> has been received, data entry i is          *)
(* OverLimit: while the table is in place, for every CIDR of the entry the *)
(* log rule is not installed and the drop rule is.                         *)
(***************************************************************************)
C6_OverLimitAfterEvent ==
    \A n \in DOMAIN data_entries :
        (acct[n].received /\ table) =>
            \A ip \in DOMAIN DataRules(n) :
                /\ ~Installed(DataRules(n)[ip].log)
                /\ Installed(DataRules(n)[ip].block)

(***************************************************************************)
(* C7.  When the bytes received from the CIDRs of a data entry have        *)
(* crossed limit_bytes, a notification tagged with the entry's name has    *)
(* been emitted: the drop rule ahead of the log rule does not prevent it.  *)
(***************************************************************************)
C7_CrossingIsNotified ==
    \A n \in DataNames(config) :
        acct[n].arrived > DataEntryOf(config, n).quota => acct[n].notified

(***************************************************************************)
(* C8.  Once an entry's quota is exhausted, every packet whose source or   *)
(* destination lies in one of the entry's CIDRs is dropped or rejected, in *)
(* the inbound and in the outbound direction.                              *)
(***************************************************************************)
C8_ExhaustedIsBlockedBothWays ==
    \A p \in Packets : QuotaGone(p.addr) => EvalPacket(p).verdict # "accept"

(***************************************************************************)
(* C9.  After init has completed, and until deinit, the classifier holds   *)
(* for every entry and every CIDR of it exactly one rule set and nothing   *)
(* else: drop and log rule in data_qt-in, start and in_fin in time_qt-in,  *)
(* out_fin in time_qt-out, each with the entry's name as tag.              *)
(***************************************************************************)
PolicyRules ==
    UNION { UNION { { DataRules(n)[ip].block, DataRules(n)[ip].log } :
                        ip \in DOMAIN DataRules(n) } : n \in DataNames(config) }
    \cup
    UNION { UNION { { TimeRules(n)[ip].start, TimeRules(n)[ip].in_fin,
                      TimeRules(n)[ip].out_fin } :
                        ip \in DOMAIN TimeRules(n) } : n \in TimeNames(config) }

ExpectedRules(c) == { r \in PolicyRules : r.chain = c }

C9_RuleSetsAfterInit ==
    (pc = "run" /\ sigpc = "wait") =>
        \A c \in ChainNames :
            /\ Range(rules[c]) = ExpectedRules(c)
            /\ Len(rules[c]) = Cardinality(ExpectedRules(c))

(***************************************************************************)
(* C10. The table netcontrol and its four chains are all present or all    *)
(* absent, in every state.                                                 *)
(***************************************************************************)
C10_TopologyAllOrNothing ==
    \/ table /\ chains = ChainNames
    \/ ~table /\ chains = {} /\ rules = NoRules

\* the topology was installed by init and then removed by deinit
C10_Witness ==
    /\ pc = "run"
    /\ sigpc = "exiting"
    /\ ~table

(***************************************************************************)
(* C11. A batch of init that the control channel refuses makes init fail:  *)
(* a step of init (the topology batch, the batch of a data entry, the      *)
(* batch of a time entry) after which the classifier is as it was before,  *)
(* the batch having been refused, does not carry on to the next entry, to  *)
(* the binding of the log groups or to the run loop.                       *)
(***************************************************************************)
InitSteps == {"topology", "data", "time"}
InitGoesOn == {"data", "time", "bind", "run"}

C11_InitFailsOnRefusal ==
    [][ ( /\ pc \in InitSteps
          /\ <<pc, idx>>' # <<pc, idx>>
          /\ <<table, chains, rules>>' = <<table, chains, rules>> )
        => pc' \notin InitGoesOn ]_vars

(***************************************************************************)
(* C12. After deinit has completed successfully (the kernel acknowledged   *)
(* the deletion, the signal thread goes on to exit), the table netcontrol  *)
(* is absent with all its chains and rules, and no quota counter holds a   *)
(* count, whatever was installed and counted before.                       *)
(***************************************************************************)
DeinitDone == sigpc \in {"exiting", "exited"}

C12_DeinitRemovesAll ==
    DeinitDone =>
        /\ ~table
        /\ chains = {}
        /\ rules = NoRules
        /\ \A n \in DOMAIN consumed : consumed[n] = 0

\* deinit completed after init had run to its end and a quota had counted bytes
C12_Witness ==
    /\ DeinitDone
    /\ groups # {}
    /\ \E n \in DOMAIN acct : acct[n].arrived > 0
    /\ \A n \in DOMAIN consumed : consumed[n] = 0

(***************************************************************************)
(* C13. A signal received by the running process (init has returned, the   *)
(* main thread reads the log queue) leads to deinit and then to exit(0):   *)
(* the step of the signal thread that takes the signal leaves the table    *)
(* absent and the thread on its way to exit, and the process never exits   *)
(* with the table installed.                                               *)
(***************************************************************************)
C13_SignalStopsRunning ==
    [][ (pc = "run" /\ sigpc = "wait" /\ sigpc' # "wait")
        => (sigpc' = "exiting" /\ ~table') ]_vars

(***************************************************************************)
(* The policy file as the grammar reads it: a line that is blank (nothing  *)
(* but whitespace) or whose first character after the whitespace is '#' is *)
(* no entry.                                                               *)
(***************************************************************************)
RECURSIVE DropWhitespace(_)
DropWhitespace(s) ==
    IF s # <<>> /\ Head(s) \in Whitespace THEN DropWhitespace(Tail(s)) ELSE s

Ignorable(line) == DropWhitespace(line) = <<>> \/ Head(DropWhitespace(line)) = "#"

Loaded == pc # "load"

Failed == err.e # "none"

\* the line new_from_file stopped at: the line of the file the error is about
Offending == file[err.i + 1]

(***************************************************************************)
(* C14. A malformed entry in the policy file stops the process at startup: *)
(* when new_from_file returned an EntryError about a line that is an entry *)
(* (not blank, not a comment), the process has exited with code 1 and the  *)
(* kernel holds no table, chain or rule of netcontrol.                     *)
(***************************************************************************)
C14_MalformedExitsOne ==
    (Failed /\ ~Ignorable(Offending)) =>
        /\ pc = "exit1"
        /\ ~table
        /\ chains = {}
        /\ rules = NoRules

(***************************************************************************)
(* C15. The EntryError of a file carries the 1-based number of the line it *)
(* is about: the first line of the file that is in error, counted from 1.  *)
(***************************************************************************)
InError(line) ==
    /\ QuotaTypeFromStr(line).res = "Err"
    /\ QuotaTypeFromStr(line).val # "InnactiveEntry"

FirstInError(lines) ==
    CHOOSE k \in 1 .. Len(lines) :
        InError(lines[k]) /\ \A j \in 1 .. k - 1 : ~InError(lines[j])

C15_LineNumberOneBased ==
    Failed => err.i = FirstInError(file)

(***************************************************************************)
(* C16. Blank lines and comment lines, comments after whitespace included, *)
(* are ignored: when the file without its blank and comment lines parses   *)
(* to a policy, the file itself loads to that policy, and an error of the  *)
(* file is never about a blank or a comment line.                          *)
(***************************************************************************)
StripIgnorable(lines) == SelectSeq(lines, LAMBDA l : ~Ignorable(l))

C16_BlankAndCommentIgnored ==
    Loaded =>
        /\ NewFromFile(StripIgnorable(file)).res = "Ok" =>
              (pc # "panic" /\ config = NewFromFile(StripIgnorable(file)).val)
        /\ Failed => ~Ignorable(Offending)

(***************************************************************************)
(* C17. Entries keep the order of the file within their kind and are named *)
(* by position: config.data and config.time are the data and the time      *)
(* entries of the file in file order; the entry init creates in round i of *)
(* a kind is config.data[i] under the name dq_<i> (config.time[i] under    *)
(* tq_<i>), so that the rounds done so far gave as many names; and every   *)
(* installed rule that counts or logs under a name belongs to a CIDR and   *)
(* to the quota of the entry at that position.                             *)
(***************************************************************************)
EntriesOf(lines, type) ==
    LET parsed == [i \in 1 .. Len(lines) |-> QuotaTypeFromStr(lines[i])]
        sel    == SelectSeq(parsed, LAMBDA r : r.res = "Ok" /\ r.val.type = type)
    IN  [i \in 1 .. Len(sel) |-> sel[i].val.acc]

\* the rounds of the loop over a kind that init has done
RoundsDone(kind, len) ==
    IF pc \in {"load", "handle", "topology"} THEN 0
    ELSE IF pc = kind THEN idx
    ELSE IF kind = "time" /\ pc = "data" THEN 0
    ELSE len

C17_OrderAndNames ==
    (Loaded /\ pc # "panic") =>
        /\ config.data = EntriesOf(file, "Data")
        /\ config.time = EntriesOf(file, "Time")
        /\ DOMAIN data_entries =
              { EntryName(DATA_LOG_PREFIX, i) : i \in 0 .. RoundsDone("data", Len(config.data)) - 1 }
        /\ DOMAIN time_entries =
              { EntryName(TIME_LOG_PREFIX, i) : i \in 0 .. RoundsDone("time", Len(config.time)) - 1 }
        /\ Cardinality(DOMAIN data_entries) = RoundsDone("data", Len(config.data))
        /\ Cardinality(DOMAIN time_entries) = RoundsDone("time", Len(config.time))
        /\ \A n \in DOMAIN data_entries :
              data_entries[n] = NfDataLimitNew(config.data[n[2] + 1], DATA_IN_CHAIN_NAME, n)
        /\ \A n \in DOMAIN time_entries :
              time_entries[n].rules = NfTimeLimitNew(config.time[n[2] + 1], TIME_IN_CHAIN_NAME,
                                                     TIME_OUT_CHAIN_NAME, n).rules
        /\ \A c \in ChainNames : \A k \in 1 .. Len(rules[c]) :
              LET r == rules[c][k]
              IN  /\ r.quota.type # "none" =>
                        /\ r.quota.name \in DOMAIN data_entries
                        /\ r.quota.limit = config.data[r.quota.name[2] + 1].quota
                        /\ r.cidr \in Range(config.data[r.quota.name[2] + 1].addr)
                  /\ (r.log # NoLog /\ r.log[1] = TIME_QUOTA_NUM) =>
                        /\ r.log[2][2] \in DOMAIN time_entries
                        /\ r.cidr \in Range(config.time[r.log[2][2][2] + 1].addr)

\* a file with a comment and two different data entries, both installed by
\* init under their names
C17_Witness ==
    /\ pc = "run"
    /\ \E k \in 1 .. Len(file) : Ignorable(file[k])
    /\ Len(config.data) = 2
    /\ config.data[1] # config.data[2]
    /\ \A n \in DataNames(config) : \A ip \in DOMAIN DataRules(n) :
          Installed(DataRules(n)[ip].log)

(***************************************************************************)
(* C18. Every entry of a policy that was parsed successfully has at least  *)
(* one CIDR.                                                               *)
(***************************************************************************)
C18_EntriesHaveCidr ==
    (Loaded /\ pc # "panic") =>
        /\ \A i \in 1 .. Len(config.data) : Len(config.data[i].addr) >= 1
        /\ \A i \in 1 .. Len(config.time) : Len(config.time[i].addr) >= 1

(***************************************************************************)
(* C19. block(e) followed by unblock(e) returns the installed rules to     *)
(* their shape before the block: after an unblock of the entry whose block *)
(* the kernel committed last, every chain holds the rules it held before   *)
(* the block: the block rules of a time entry are gone again, the log rule *)
(* of a data entry is back, the rules of the other entries are untouched.  *)
(***************************************************************************)
C19_BlockUnblockRoundTrip ==
    api.last = "unblock" => \A c \in ChainNames : rules[c] = api.pre[c]

(***************************************************************************)
(* C20. Expired is terminal: a time entry whose timer has reached          *)
(* limit_seconds has no pending schedule (nothing re-arms its timer, no    *)
(* further expiry is to come), and no block rule of an entry is installed  *)
(* more than once.                                                         *)
(***************************************************************************)
Copies(r) == Cardinality({ k \in 1 .. Len(rules[r.chain]) : rules[r.chain][k] = r })

C20_ExpiredIsTerminal ==
    \A n \in DOMAIN time_entries :
        /\ TimerExpired(time_entries[n].timer) => ~time_entries[n].timer.guard
        /\ \A ip \in DOMAIN time_entries[n].rules :
              /\ Copies(time_entries[n].rules[ip].block_in) <= 1
              /\ Copies(time_entries[n].rules[ip].block_out) <= 1

(***************************************************************************)
(* C21. An entry with a quota of zero is exhausted by the first matching   *)
(* packet: with the table in place, a data entry of 0kb from whose CIDRs a *)
(* packet has arrived has had its notification emitted, and a time entry   *)
(* of 0s that received a start_ event is expired with its block rules      *)
(* installed in both directions, no second having to pass.                 *)
(***************************************************************************)
C21_ZeroQuotaAtOnce ==
    table =>
        /\ \A n \in DataNames(config) :
              (DataEntryOf(config, n).quota = 0 /\ acct[n].arrived > 0) => acct[n].notified
        /\ \A n \in DOMAIN time_entries :
              (time_entries[n].timer.target_secs = 0 /\ obs[n].last = "start") =>
                  (TimerExpired(time_entries[n].timer) /\ BlockedBothWays(n))

(***************************************************************************)
(* C22. Two data entries that list the same CIDR act independently: when   *)
(* the rule sets of both are installed for the CIDR, a packet from it is   *)
(* counted by the quota of each of them, whatever the other entry's quota  *)
(* has reached.                                                            *)
(***************************************************************************)
SharedCidrs(n1, n2) == DOMAIN data_entries[n1].rules \cap DOMAIN data_entries[n2].rules

C22_DuplicatesIndependent ==
    \A p \in Packets : \A n1, n2 \in Counting(p) :
        (n1 # n2 /\ \E ip \in SharedCidrs(n1, n2) : InCidr(p.addr, ip)) =>
            /\ EvalPacket(p).consumed[n1] > consumed[n1]
            /\ EvalPacket(p).consumed[n2] > consumed[n2]

(***************************************************************************)
(* The tokens of an entry as the grammar reads them.  A time quota is      *)
(* digits followed by s, m or h; a data quota is digits followed by kb,    *)
(* mb, gb, kib, mib or gib.  A host of the form a.b.c.d or a.b.c.d/p,      *)
(* numbers between the dots and after the slash, is in range when every    *)
(* octet is at most 255 and the prefix length at most 32.                  *)
(***************************************************************************)
OneEntry == Len(file) = 1 /\ Len(SplitWhitespace(file[1])) = 2

HostOf  == SplitWhitespace(file[1])[1]
QuotaOf == SplitWhitespace(file[1])[2]

DigitsThen(w, units) ==
    \E k \in 1 .. Len(w) - 1 :
        /\ \A i \in 1 .. k : IsDigit(w[i])
        /\ SubSeq(w, k + 1, Len(w)) \in units

IsTimeToken(w) == DigitsThen(w, { <<"s">>, <<"m">>, <<"h">> })

IsDataToken(w) == DigitsThen(w, { <<"k", "b">>, <<"m", "b">>, <<"g", "b">>,
                                  <<"k", "i", "b">>, <<"m", "i", "b">>, <<"g", "i", "b">> })

IsNumber(w) == w # <<>> /\ \A i \in 1 .. Len(w) : IsDigit(w[i])

QuadForm(w) ==
    LET parts  == FieldsOf(w, "/")
        octets == FieldsOf(parts[1], ".")
    IN  /\ Len(parts) \in 1 .. 2
        /\ Len(octets) = 4
        /\ \A i \in 1 .. 4 : IsNumber(octets[i])
        /\ Len(parts) = 2 => IsNumber(parts[2])

InRange(w) ==
    LET parts  == FieldsOf(w, "/")
        octets == FieldsOf(parts[1], ".")
    IN  /\ \A i \in 1 .. 4 : ParseNat(octets[i]) <= 255
        /\ Len(parts) = 2 => ParseNat(parts[2]) <= 32

C24_CidrExactlyInRange ==
    (Loaded /\ OneEntry /\ QuadForm(HostOf) /\ IsTimeToken(QuotaOf)) =>
        IF InRange(HostOf)
        THEN /\ pc # "panic"
             /\ Len(config.time) = 1
             /\ config.time[1].addr = <<ParseIpv4Network(HostOf)>>
        ELSE err.e = "InvalidHostFormat"


(***************************************************************************)
(* C25. A signal is handled safely at any point after the start of the     *)
(* process, before and while init creates the handle and the table         *)
(* included: the step of the signal thread that takes a signal while the   *)
(* main thread is inside init does not fail (no panic on a handle that is  *)
(* not set, none on a table that is not there), leaves no table behind and *)
(* puts the thread on its way to exit(0).                                  *)
(***************************************************************************)
InInit == pc \in {"handle", "topology", "data", "time", "bind"}

C25_SignalSafeInsideInit ==
    [][ (InInit /\ sigpc = "wait" /\ sigpc' # "wait")
        => (sigpc' = "exiting" /\ ~table') ]_vars

(***************************************************************************)
(* C26. Mutations of the classifier and of the handle are serialised       *)
(* through the main thread: a step of the signal thread changes nothing of *)
(* the table, its chains, rules, quota objects and counters, and a step of *)
(* the timer worker (a second that passes) changes no entry's schedule.    *)
(***************************************************************************)
Schedules == [n \in DOMAIN time_entries |->
                 <<time_entries[n].timer.guard, time_entries[n].timer.active>>]

C26_OnlyMainThreadMutates ==
    [][ /\ sigpc' # sigpc => UNCHANGED <<table, chains, rules, quotas, consumed>>
        /\ clock' # clock => Schedules' = Schedules ]_vars

(***************************************************************************)
(* C27. Pending timers are cancelled before or together with deinit: the   *)
(* step of the signal thread that sends the batch of deinit leaves no      *)
(* entry with a pending schedule, and after it a second that passes        *)
(* changes no timer: no count goes up and no expiry fires.                 *)
(***************************************************************************)
C27_NoScheduleAfterDeinit ==
    [][ /\ (sigpc = "wait" /\ sigpc' # "wait") =>
               \A n \in DOMAIN time_entries : ~time_entries'[n].timer.guard
        /\ (sigpc # "wait" /\ clock' # clock) => time_entries' = time_entries ]_vars

(***************************************************************************)
(* C28. After any sequence of start, stop and reset on a ConnTimer the     *)
(* timer has a pending schedule exactly when it is active (at most one,    *)
(* exactly one while the entry is Running), and the elapsed count of an    *)
(* active timer is below the target.                                       *)
(***************************************************************************)
C28_OneScheduleWhileRunning ==
    \A n \in DOMAIN time_entries :
        LET t == time_entries[n].timer
        IN  /\ t.active <=> t.guard
            /\ t.active => t.current_secs < t.target_secs

(***************************************************************************)
(* C29. Every packet from a CIDR of a data entry is charged once against   *)
(* the entry's quota: while the table is in place, the counter of every    *)
(* data entry equals the sum of the lengths of the packets that arrived    *)
(* from the entry's CIDRs with its rule set installed, the drop rule and   *)
(* the log rule evaluating the same quota notwithstanding.                 *)
(***************************************************************************)
C29_ChargedOnce ==
    table => \A n \in DOMAIN consumed : consumed[n] = acct[n].arrived

(***************************************************************************)
(* C30. The quota object of a data entry is in the classifier no later     *)
(* than the rules that reference it: every installed rule with a quota     *)
(* expression names a quota object that the table holds.                   *)
(***************************************************************************)
C30_QuotaBeforeRules ==
    \A c \in ChainNames : \A k \in 1 .. Len(rules[c]) :
        rules[c][k].quota.type # "none" => rules[c][k].quota.name \in quotas

====
